---- MODULE Spec2Model ----
(***************************************************************************)
(* Model of src/RSA.py: modular arithmetic, Miller-Rabin, prime            *)
(* generation, RSA key generation / cipher and Fermat's factorisation.     *)
(* Each function of the source has one activation frame (a record          *)
(* variable); a specification runs one entry point on inputs drawn from    *)
(* bounded sets and leaves the other frames idle.                          *)
(***************************************************************************)
EXTENDS Integers, Sequences, FiniteSets, TLC

VARIABLES pw, inv, rz, mr, gp, rsa, fa

vars == <<pw, inv, rz, mr, gp, rsa, fa>>

(***************************************************************************)
(* Bounds of the model.                                                    *)
(***************************************************************************)
MaxPowA == 5
MaxPowB == 5
MaxPowN == 5
MaxInvA == 24
MaxInvM == 24
MaxRaizN == 300
MaxPrimoN == 100
MaxRondas == 2
MaxGenBits == 4
MaxRsaBits == 4
MaxFermatN == 400
MaxK == 8

(***************************************************************************)
(* Program constants: the default number of rounds (line 109) and the      *)
(* public exponent (line 170).                                             *)
(***************************************************************************)
RondasPorDefecto == 40
ExponentePublico == 65537

(***************************************************************************)
(* Python integer operators.  // and % round towards minus infinity and    *)
(* the remainder takes the sign of the divisor.                            *)
(***************************************************************************)
PyFloorDiv(a, b) == IF b > 0 THEN a \div b ELSE (0 - a) \div (0 - b)

PyMod(a, b) == a - b * PyFloorDiv(a, b)

RECURSIVE BitLength(_)
BitLength(n) == IF n = 0 THEN 0 ELSE 1 + BitLength(n \div 2)

RECURSIVE BitOr(_, _)
BitOr(a, b) ==
    IF a = 0 THEN b
    ELSE IF b = 0 THEN a
    ELSE (IF a % 2 = 1 \/ b % 2 = 1 THEN 1 ELSE 0) + 2 * BitOr(a \div 2, b \div 2)

(***************************************************************************)
(* exponenciacion_modular(a, b, n): the while loop of lines 21-25, then    *)
(* the function with its initialisation (lines 18-19) and return.          *)
(***************************************************************************)
RECURSIVE PowLoop(_, _, _, _)
PowLoop(resultado, a, b, n) ==
    IF b > 0
    THEN PowLoop(IF b % 2 = 1 THEN (resultado * a) % n ELSE resultado,
                 (a * a) % n, b \div 2, n)
    ELSE resultado

exponenciacion_modular(a, b, n) == PowLoop(1, a % n, b, n)

(***************************************************************************)
(* mcd_extendido(a, b): the triple (g, x, y) as a sequence.                *)
(***************************************************************************)
RECURSIVE mcd_extendido(_, _)
mcd_extendido(a, b) ==
    IF a = 0
    THEN <<b, 0, 1>>
    ELSE LET r == mcd_extendido(PyMod(b, a), a)
         IN  <<r[1], r[3] - PyFloorDiv(b, a) * r[2], r[2]>>

(***************************************************************************)
(* inverso_modular(a, m): raised is the exception of line 66.              *)
(***************************************************************************)
inverso_modular_sin_reducir(a, m) ==
    LET r == mcd_extendido(a, m)
    IN  IF r[1] # 1
        THEN [raised |-> TRUE, value |-> 0]
        ELSE [raised |-> FALSE, value |-> r[2]]

inverso_modular(a, m) ==
    LET r == mcd_extendido(a, m)
    IN  IF r[1] # 1
        THEN [raised |-> TRUE, value |-> 0]
        ELSE [raised |-> FALSE, value |-> PyMod(r[2], m)]

(***************************************************************************)
(* raiz_entera(n): the start value of line 78, one Newton step of line 80, *)
(* the loop of lines 79-83 and the function (raised: line 74).             *)
(***************************************************************************)
RaizInicio(n) == 2 ^ (BitLength(n) \div 2 + 1)

NewtonPaso_redondeo_arriba(x, n) == (x + n \div x + 1) \div 2

NewtonPaso(x, n) == (x + n \div x) \div 2

RECURSIVE NewtonLoop(_, _)
NewtonLoop(x, n) ==
    LET y == NewtonPaso(x, n)
    IN  IF y >= x THEN x ELSE NewtonLoop(y, n)

raiz_entera(n) ==
    IF n < 0 THEN [raised |-> TRUE, value |-> 0]
    ELSE IF n = 0 THEN [raised |-> FALSE, value |-> 0]
    ELSE [raised |-> FALSE, value |-> NewtonLoop(RaizInicio(n), n)]

(***************************************************************************)
(* descomponer_potencia_dos(n): the pair (s, d) with n - 1 = d * 2^s.      *)
(***************************************************************************)
RECURSIVE DescomponerLoop(_, _)
DescomponerLoop(d, s) ==
    IF d % 2 = 0 THEN DescomponerLoop(d \div 2, s + 1) ELSE <<s, d>>

descomponer_potencia_dos(n) == DescomponerLoop(n - 1, 0)

(***************************************************************************)
(* ronda_miller_rabin(n, a): the for loop of lines 102-105 with k          *)
(* iterations left, then the function.                                     *)
(***************************************************************************)
RECURSIVE RondaLoop(_, _, _)
RondaLoop(x, k, n) ==
    IF k <= 0 THEN FALSE
    ELSE LET x2 == (x * x) % n
         IN  IF x2 = n - 1 THEN TRUE ELSE RondaLoop(x2, k - 1, n)

ronda_sin_menos_uno(n, a) ==
    LET sd == descomponer_potencia_dos(n)
        x == exponenciacion_modular(a, sd[2], n)
    IN  IF x = 1 THEN TRUE ELSE RondaLoop(x, sd[1] - 1, n)

ronda_fermat(n, a) == exponenciacion_modular(a, n - 1, n) = 1

ronda_miller_rabin(n, a) ==
    LET sd == descomponer_potencia_dos(n)
        x == exponenciacion_modular(a, sd[2], n)
    IN  IF x = 1 \/ x = n - 1 THEN TRUE ELSE RondaLoop(x, sd[1] - 1, n)

(***************************************************************************)
(* generar_impar_aleatorio(bits), r being the value getrandbits(bits)      *)
(* returned (0 <= r < 2^bits).                                             *)
(***************************************************************************)
generar_impar_sin_bit_alto(bits, r) == BitOr(r, 1)

generar_impar_aleatorio(bits, r) == BitOr(BitOr(r, 2 ^ (bits - 1)), 1)

(***************************************************************************)
(* Whether es_primo_probable(n, rondas) can return True for some draws of  *)
(* its witnesses, and the values generar_primo(bits) can return.           *)
(***************************************************************************)
PuedePasar(n, rondas) ==
    IF n < 2 THEN FALSE
    ELSE IF n \in {2, 3} THEN TRUE
    ELSE IF n % 2 = 0 THEN FALSE
    ELSE rondas = 0 \/ \E a \in 2..(n - 2) : ronda_miller_rabin(n, a)

PrimosPosibles(bits) ==
    {n \in {generar_impar_aleatorio(bits, r) : r \in 0..(2 ^ bits - 1)} :
        PuedePasar(n, RondasPorDefecto)}

(***************************************************************************)
(* cifrar_rsa and descifrar_rsa; a key is a pair.                          *)
(***************************************************************************)
cifrar_rsa(mensaje, clave_publica) ==
    exponenciacion_modular(mensaje, clave_publica[2], clave_publica[1])

descifrar_rsa(cifrado, clave_privada) ==
    exponenciacion_modular(cifrado, clave_privada[2], clave_privada[1])

(***************************************************************************)
(* ataque_de_fermat: the start value of lines 208-210 from r = isqrt(n),   *)
(* and the pair returned at line 216.                                      *)
(***************************************************************************)
TechoRaiz_sin_incremento(n, r) == r

TechoRaiz(n, r) == IF r * r < n THEN r + 1 ELSE r

FermatFactores_invertidos(x, y) == <<x + y, x - y>>

FermatFactores(x, y) == <<x - y, x + y>>

(***************************************************************************)
(* Idle frames.                                                            *)
(***************************************************************************)
PwIdle == [pc |-> "idle"]
InvIdle == [pc |-> "idle"]
RzIdle == [pc |-> "idle"]
MrIdle == [pc |-> "idle"]
GpIdle == [pc |-> "idle"]
RsaIdle == [pc |-> "idle"]
FaIdle == [pc |-> "idle"]

(***************************************************************************)
(* Specification SpecPow: one call of exponenciacion_modular.              *)
(***************************************************************************)
InitPow ==
    /\ pw \in [pc : {"call"}, a : 0..MaxPowA, b : 0..MaxPowB, n : 1..MaxPowN,
               resultado : {0}]
    /\ inv = InvIdle /\ rz = RzIdle /\ mr = MrIdle
    /\ gp = GpIdle /\ rsa = RsaIdle /\ fa = FaIdle

Exponenciar ==
    /\ pw.pc = "call"
    /\ pw' = [pw EXCEPT !.pc = "done",
                        !.resultado = exponenciacion_modular(pw.a, pw.b, pw.n)]
    /\ UNCHANGED <<inv, rz, mr, gp, rsa, fa>>

NextPow == Exponenciar

SpecPow == InitPow /\ [][NextPow]_vars

\* Reference power: the product of b copies of a (the empty product is 1),
\* reduced once at the end.
RECURSIVE RefPow(_, _)
RefPow(a, b) == IF b = 0 THEN 1 ELSE a * RefPow(a, b - 1)

RefPowMod(a, b, n) == RefPow(a, b) % n

\* C2: for all a >= 0, b >= 0, n >= 1, exponenciacion_modular(a, b, n) is
\* a^b mod n as the reference computes it; in particular 1 mod n for b = 0
\* and 0 for n = 1, b = 0 included.
C2_ModpowIsReference ==
    pw.pc = "done" => pw.resultado = RefPowMod(pw.a, pw.b, pw.n)

\* The same statement away from the case n = 1, b = 0.
ModpowIsReferenceElsewhere ==
    pw.pc = "done" /\ ~(pw.n = 1 /\ pw.b = 0)
        => pw.resultado = RefPowMod(pw.a, pw.b, pw.n)

(***************************************************************************)
(* Specification SpecInv: one call of inverso_modular; the frame keeps the *)
(* triple mcd_extendido returned to it (line 64).                          *)
(***************************************************************************)
InitInv ==
    /\ inv \in [pc : {"call"}, a : (0 - MaxInvA)..MaxInvA, m : 1..MaxInvM,
                g : {0}, x : {0}, y : {0}, raised : {FALSE}, value : {0}]
    /\ pw = PwIdle /\ rz = RzIdle /\ mr = MrIdle
    /\ gp = GpIdle /\ rsa = RsaIdle /\ fa = FaIdle

InversoModular ==
    /\ inv.pc = "call"
    /\ LET t == mcd_extendido(inv.a, inv.m)
           r == inverso_modular(inv.a, inv.m)
       IN  inv' = [inv EXCEPT !.pc = "done", !.g = t[1], !.x = t[2], !.y = t[3],
                              !.raised = r.raised, !.value = r.value]
    /\ UNCHANGED <<pw, rz, mr, gp, rsa, fa>>

NextInv == InversoModular

SpecInv == InitInv /\ [][NextInv]_vars

\* Reference gcd of a and m >= 1: the largest common divisor of |a| and m.
Abs(a) == IF a < 0 THEN 0 - a ELSE a

RefGcd(a, m) ==
    CHOOSE d \in 1..m :
        /\ m % d = 0 /\ Abs(a) % d = 0
        /\ \A e \in 1..m : (m % e = 0 /\ Abs(a) % e = 0) => e <= d

\* C3: for a >= 0, m > 1 with gcd(a, m) = 1, inverso_modular(a, m) returns x
\* with 0 <= x < m and a*x mod m = 1; mcd_extendido(a, m) returns (g, x, y)
\* with g = gcd(a, m) and g = a*x + m*y for every a >= 0.
C3_InverseCorrect ==
    inv.pc = "done" /\ inv.a >= 0 =>
        /\ inv.g = RefGcd(inv.a, inv.m)
        /\ inv.g = inv.a * inv.x + inv.m * inv.y
        /\ (inv.m > 1 /\ RefGcd(inv.a, inv.m) = 1) =>
              /\ ~inv.raised
              /\ 0 <= inv.value /\ inv.value < inv.m
              /\ (inv.a * inv.value) % inv.m = 1

\* C3 witness: 3^-1 mod 7 = 5, reached from the negative coefficient -2.
C3_Witness ==
    inv.pc = "done" /\ inv.a = 3 /\ inv.m = 7 /\ inv.x = 0 - 2 /\ inv.value = 5

\* C4: inverso_modular(a, m) raises exactly when gcd(a, m) # 1, for a of
\* either sign and m >= 1.
C4_RaisesIffNotCoprime ==
    inv.pc = "done" => (inv.raised <=> RefGcd(inv.a, inv.m) # 1)

\* The same statement for a >= 0 only.
RaisesIffNotCoprimeNonNegative ==
    inv.pc = "done" /\ inv.a >= 0 => (inv.raised <=> RefGcd(inv.a, inv.m) # 1)

(***************************************************************************)
(* Specification SpecRaiz: raiz_entera, one action per loop iteration.     *)
(* The interpreter runs the loop on, hence weak fairness.                  *)
(***************************************************************************)
InitRaiz ==
    /\ rz \in [pc : {"call"}, n : (0 - 1)..MaxRaizN, x : {0}, ret : {0}]
    /\ pw = PwIdle /\ inv = InvIdle /\ mr = MrIdle
    /\ gp = GpIdle /\ rsa = RsaIdle /\ fa = FaIdle

RaizEntrada ==
    /\ rz.pc = "call"
    /\ rz' = IF rz.n < 0 THEN [rz EXCEPT !.pc = "raised"]
             ELSE IF rz.n = 0 THEN [rz EXCEPT !.pc = "done", !.ret = 0]
             ELSE [rz EXCEPT !.pc = "loop", !.x = RaizInicio(rz.n)]
    /\ UNCHANGED <<pw, inv, mr, gp, rsa, fa>>

RaizIteracion ==
    /\ rz.pc = "loop"
    /\ LET y == NewtonPaso(rz.x, rz.n)
       IN  rz' = IF y >= rz.x
                 THEN [rz EXCEPT !.pc = "done", !.ret = rz.x]
                 ELSE [rz EXCEPT !.x = y]
    /\ UNCHANGED <<pw, inv, mr, gp, rsa, fa>>

NextRaiz == RaizEntrada \/ RaizIteracion

SpecRaiz == InitRaiz /\ [][NextRaiz]_vars /\ WF_vars(NextRaiz)

\* Reference floor square root of n >= 0.
RefIsqrt(n) == CHOOSE r \in 0..n : r * r <= n /\ n < (r + 1) * (r + 1)

\* C5: for n >= 0 raiz_entera terminates with r*r <= n < (r+1)*(r+1); the
\* iterate x starts at 2^(bit_length(n) div 2 + 1), strictly decreases and
\* never drops below floor(sqrt(n)).
C5_IsqrtCorrect ==
    /\ [](rz.pc = "done" => /\ rz.ret * rz.ret <= rz.n
                            /\ rz.n < (rz.ret + 1) * (rz.ret + 1))
    /\ [](rz.pc = "loop" => rz.x >= RefIsqrt(rz.n))
    /\ [][rz.pc = "call" /\ rz'.pc = "loop"
             => rz'.x = 2 ^ (BitLength(rz.n) \div 2 + 1)]_vars
    /\ [][rz.pc = "loop" /\ rz'.pc = "loop" => rz'.x < rz.x]_vars
    /\ [][rz.pc = "loop" /\ rz'.pc = "done" => rz'.ret = rz.x]_vars
    /\ ((rz.pc = "call" /\ rz.n >= 0) ~> (rz.pc = "done"))

\* C5 witness: isqrt(35) = 5 after the iterate has come down from 16.
C5_Witness ==
    rz.pc = "done" /\ rz.n = 35 /\ rz.ret = 5 /\ rz.x = 5

(***************************************************************************)
(* es_primo_probable, one action per round.  a is the last witness drawn   *)
(* (0: none yet), i the number of rounds passed.                           *)
(***************************************************************************)
PrimoEntrada ==
    /\ mr.pc = "call"
    /\ mr' = IF mr.n < 2 THEN [mr EXCEPT !.pc = "done", !.ret = FALSE]
             ELSE IF mr.n \in {2, 3} THEN [mr EXCEPT !.pc = "done", !.ret = TRUE]
             ELSE IF mr.n % 2 = 0 THEN [mr EXCEPT !.pc = "done", !.ret = FALSE]
             ELSE [mr EXCEPT !.pc = "loop", !.i = 0]
    /\ UNCHANGED <<pw, inv, rz, gp, rsa, fa>>

PrimoRonda ==
    /\ mr.pc = "loop"
    /\ mr.i < mr.rondas
    /\ \E a \in 2..(mr.n - 2) :
          mr' = IF ~ronda_miller_rabin(mr.n, a)
                THEN [mr EXCEPT !.pc = "done", !.ret = FALSE, !.a = a]
                ELSE [mr EXCEPT !.i = mr.i + 1, !.a = a]
    /\ UNCHANGED <<pw, inv, rz, gp, rsa, fa>>

PrimoFin ==
    /\ mr.pc = "loop"
    /\ mr.i = mr.rondas
    /\ mr' = [mr EXCEPT !.pc = "done", !.ret = TRUE]
    /\ UNCHANGED <<pw, inv, rz, gp, rsa, fa>>

(***************************************************************************)
(* Specification SpecPrimo: one call of es_primo_probable(n, rondas).      *)
(***************************************************************************)
Carmichael == {561, 1105}

InitPrimo ==
    /\ mr \in [pc : {"call"}, n : ((0 - 1)..MaxPrimoN) \cup Carmichael,
               rondas : 0..MaxRondas, i : {0}, a : {0}, ret : {FALSE}]
    /\ pw = PwIdle /\ inv = InvIdle /\ rz = RzIdle
    /\ gp = GpIdle /\ rsa = RsaIdle /\ fa = FaIdle

NextPrimo == PrimoEntrada \/ PrimoRonda \/ PrimoFin

SpecPrimo == InitPrimo /\ [][NextPrimo]_vars

\* Reference primality: no divisor in 2..n-1.
EsPrimo(n) == n >= 2 /\ \A d \in 2..(n - 1) : n % d # 0

Mentirosos(n) == {a \in 2..(n - 2) : ronda_miller_rabin(n, a)}

\* C6: es_primo_probable never rejects a prime, whatever the rounds and the
\* witnesses drawn: every a in [2, n-2] passes ronda_miller_rabin for a prime
\* n >= 5, and 2 and 3 are accepted without a draw.
C6_NeverRejectsPrime ==
    /\ (mr.pc = "done" /\ EsPrimo(mr.n)) => mr.ret = TRUE
    /\ (mr.pc = "call" /\ mr.n >= 5 /\ EsPrimo(mr.n))
          => \A a \in 2..(mr.n - 2) : ronda_miller_rabin(mr.n, a)
    /\ (mr.pc = "done" /\ mr.n \in {2, 3}) => mr.a = 0

\* C6 witness: the prime 53 accepted after its rounds on a drawn witness.
C6_Witness ==
    /\ mr.pc = "done" /\ mr.n = 53 /\ mr.rondas = 2 /\ mr.i = 2
    /\ mr.a = 23 /\ mr.ret = TRUE

\* C7: es_primo_probable returns False without a draw for n < 2 and even
\* n > 2; for an odd composite n >= 9 at most a quarter of the witnesses in
\* [2, n-2] pass ronda_miller_rabin, and the test returns False as soon as a
\* drawn witness is not one of them.
C7_RejectsComposite ==
    /\ (mr.pc = "done" /\ (mr.n < 2 \/ (mr.n > 2 /\ mr.n % 2 = 0)))
          => (mr.ret = FALSE /\ mr.a = 0)
    /\ (mr.pc = "call" /\ mr.n >= 9 /\ mr.n % 2 = 1 /\ ~EsPrimo(mr.n))
          => 4 * Cardinality(Mentirosos(mr.n)) <= mr.n - 3
    /\ (mr.a # 0 /\ ~EsPrimo(mr.n) /\ ~ronda_miller_rabin(mr.n, mr.a))
          => (mr.pc = "done" /\ mr.ret = FALSE)

\* C7 witness: the Carmichael number 561 rejected in its second round, on
\* the witness 2, after a first round was passed.
C7_Witness ==
    /\ mr.pc = "done" /\ mr.n = 561 /\ mr.i = 1 /\ mr.a = 2 /\ mr.ret = FALSE

(***************************************************************************)
(* Specification SpecGen: generar_primo(bits).  The loop draws a candidate *)
(* and calls es_primo_probable with its default rounds; the frame mr is    *)
(* that call.                                                              *)
(***************************************************************************)
InitGen ==
    /\ gp \in [pc : {"draw"}, bits : 1..MaxGenBits, n : {0}, ret : {0}]
    /\ mr = MrIdle
    /\ pw = PwIdle /\ inv = InvIdle /\ rz = RzIdle
    /\ rsa = RsaIdle /\ fa = FaIdle

GenCandidato(r) ==
    /\ gp.pc = "draw"
    /\ LET n == generar_impar_aleatorio(gp.bits, r)
       IN  /\ gp' = [gp EXCEPT !.pc = "test", !.n = n]
           /\ mr' = [pc |-> "call", n |-> n, rondas |-> RondasPorDefecto,
                     i |-> 0, a |-> 0, ret |-> FALSE]
    /\ UNCHANGED <<pw, inv, rz, rsa, fa>>

GenDraw == \E r \in 0..(2 ^ gp.bits - 1) : GenCandidato(r)

GenDecide ==
    /\ gp.pc = "test"
    /\ mr.pc = "done"
    /\ gp' = IF mr.ret THEN [gp EXCEPT !.pc = "done", !.ret = gp.n]
             ELSE [gp EXCEPT !.pc = "draw"]
    /\ UNCHANGED <<pw, inv, rz, mr, rsa, fa>>

NextGen == GenDraw \/ PrimoEntrada \/ PrimoRonda \/ PrimoFin \/ GenDecide

\* A draw that lands on a prime.
GenDrawPrimo == \E r \in 0..(2 ^ gp.bits - 1) : GenCandidato(r) /\ EsPrimo(gp'.n)

\* Of the fairness of the random source only this much is assumed: if the
\* loop draws again and again, then again and again the draw is a prime,
\* when a prime of that length exists.
FairGen ==
    /\ WF_vars(PrimoEntrada) /\ WF_vars(PrimoRonda) /\ WF_vars(PrimoFin)
    /\ WF_vars(GenDecide)
    /\ SF_vars(GenDrawPrimo)

SpecGen == InitGen /\ [][NextGen]_vars /\ FairGen

\* What generar_primo returns, and which candidate it returns.
GenReturnsRight ==
    /\ [](gp.pc = "done" =>
            /\ gp.ret % 2 = 1
            /\ BitLength(gp.ret) = gp.bits
            /\ mr.pc = "done" /\ mr.ret = TRUE /\ mr.n = gp.ret
            /\ mr.i = RondasPorDefecto \/ gp.ret = 3)
    /\ [][(gp.pc = "test" /\ mr.pc = "done" /\ ~mr.ret) => gp'.pc # "done"]_vars
    /\ [][(gp.pc = "test" /\ mr.pc = "done" /\ mr.ret)
             => (gp'.pc = "done" /\ gp'.ret = mr.n)]_vars
    /\ [][gp.pc = "done" => gp'.pc = "done" /\ gp'.ret = gp.ret]_vars

\* The value returned is one of those the summary PrimosPosibles allows.
GenReturnsPossible ==
    gp.pc = "done" => gp.ret \in PrimosPosibles(gp.bits)

\* C10 as stated: for every bits >= 1 the loop of generar_primo eventually
\* returns under fair draws, and it returns the first candidate that passed
\* es_primo_probable, odd and of exactly bits bits; a rejected candidate is
\* not returned.
C10_Original ==
    GenReturnsRight /\ ((gp.pc = "draw" /\ gp.bits >= 1) ~> (gp.pc = "done"))

\* C10 amended: the same for every bits >= 2 (no odd number of 1 bit is
\* prime, so generar_primo(1) draws 1 for ever).
C10_Amended ==
    GenReturnsRight /\ ((gp.pc = "draw" /\ gp.bits >= 2) ~> (gp.pc = "done"))

\* C10 witness: the 4-bit prime 13 returned after all of its rounds.
C10_Witness ==
    /\ gp.pc = "done" /\ gp.bits = 4 /\ gp.ret = 13
    /\ mr.i = RondasPorDefecto /\ mr.ret = TRUE

(***************************************************************************)
(* Specification SpecRSA: generar_claves_rsa(bits), then cifrar_rsa of a   *)
(* message 0 <= m < n and descifrar_rsa of the result.                     *)
(***************************************************************************)
InitRSA ==
    /\ rsa \in [pc : {"call"}, bits : 1..MaxRsaBits, p : {0}, q : {0}, n : {0},
                e : {0}, d : {0}, m : {0}, c : {0}, out : {0}]
    /\ pw = PwIdle /\ inv = InvIdle /\ rz = RzIdle
    /\ mr = MrIdle /\ gp = GpIdle /\ fa = FaIdle

GenerarClaves ==
    /\ rsa.pc = "call"
    /\ \E p \in PrimosPosibles(rsa.bits) : \E q \in PrimosPosibles(rsa.bits) :
          LET n == p * q
              phi == (p - 1) * (q - 1)
              e == ExponentePublico
              r == inverso_modular(e, phi)
          IN  rsa' = IF r.raised
                     THEN [rsa EXCEPT !.pc = "raised", !.p = p, !.q = q]
                     ELSE [rsa EXCEPT !.pc = "keys", !.p = p, !.q = q,
                                      !.n = n, !.e = e, !.d = r.value]
    /\ UNCHANGED <<pw, inv, rz, mr, gp, fa>>

Cifrar ==
    /\ rsa.pc = "keys"
    /\ \E m \in 0..(rsa.n - 1) :
          rsa' = [rsa EXCEPT !.pc = "cifrado", !.m = m,
                             !.c = cifrar_rsa(m, <<rsa.n, rsa.e>>)]
    /\ UNCHANGED <<pw, inv, rz, mr, gp, fa>>

Descifrar ==
    /\ rsa.pc = "cifrado"
    /\ rsa' = [rsa EXCEPT !.pc = "descifrado",
                          !.out = descifrar_rsa(rsa.c, <<rsa.n, rsa.d>>)]
    /\ UNCHANGED <<pw, inv, rz, mr, gp, fa>>

NextRSA == GenerarClaves \/ Cifrar \/ Descifrar

SpecRSA == InitRSA /\ [][NextRSA]_vars

\* C1: for every key pair generar_claves_rsa can return (the two primes
\* coinciding included) and every 0 <= m < n, decrypting the encryption of m
\* gives m back.
C1_RoundTrip ==
    rsa.pc = "descifrado" => rsa.out = rsa.m

\* The same statement for keys built from two distinct primes.
RoundTripDistinctPrimes ==
    (rsa.pc = "descifrado" /\ rsa.p # rsa.q /\ EsPrimo(rsa.p) /\ EsPrimo(rsa.q))
        => rsa.out = rsa.m

(***************************************************************************)
(* Specification SpecFermat: ataque_de_fermat(n, K), one action per loop   *)
(* iteration.  i counts the iterations that found no square.               *)
(***************************************************************************)
InitFermat ==
    /\ fa \in [pc : {"call"}, n : (0 - 1)..MaxFermatN, K : 0..MaxK, x : {0},
               i : {0}, found : {FALSE}, p : {0}, q : {0}]
    /\ pw = PwIdle /\ inv = InvIdle /\ rz = RzIdle
    /\ mr = MrIdle /\ gp = GpIdle /\ rsa = RsaIdle

FermatEntrada ==
    /\ fa.pc = "call"
    /\ LET r == raiz_entera(fa.n)
       IN  fa' = IF r.raised
                 THEN [fa EXCEPT !.pc = "raised"]
                 ELSE [fa EXCEPT !.pc = "loop", !.x = TechoRaiz(fa.n, r.value)]
    /\ UNCHANGED <<pw, inv, rz, mr, gp, rsa>>

FermatIteracion ==
    /\ fa.pc = "loop"
    /\ fa.i < fa.K
    /\ LET y2 == fa.x * fa.x - fa.n
           r == raiz_entera(y2)
           f == FermatFactores(fa.x, r.value)
       IN  fa' = IF r.raised
                 THEN [fa EXCEPT !.pc = "raised"]
                 ELSE IF r.value * r.value = y2
                 THEN [fa EXCEPT !.pc = "done", !.found = TRUE,
                                 !.p = f[1], !.q = f[2]]
                 ELSE [fa EXCEPT !.x = fa.x + 1, !.i = fa.i + 1]
    /\ UNCHANGED <<pw, inv, rz, mr, gp, rsa>>

FermatAgotado ==
    /\ fa.pc = "loop"
    /\ fa.i = fa.K
    /\ fa' = [fa EXCEPT !.pc = "done", !.found = FALSE]
    /\ UNCHANGED <<pw, inv, rz, mr, gp, rsa>>

NextFermat == FermatEntrada \/ FermatIteracion \/ FermatAgotado

SpecFermat == InitFermat /\ [][NextFermat]_vars

\* Reference: the least divisor > 1 of n, n as a product of two odd primes,
\* and the ceiling of the square root.
MenorFactor(n) == CHOOSE d \in 2..n : n % d = 0 /\ \A e \in 2..(d - 1) : n % e # 0

ProductoDePrimosImpares(n) ==
    /\ n >= 9 /\ n % 2 = 1
    /\ ~EsPrimo(n)
    /\ EsPrimo(n \div MenorFactor(n))

RefTechoRaiz(n) == CHOOSE r \in 0..n : r * r >= n /\ (r = 0 \/ (r - 1) * (r - 1) < n)

IteracionesNecesarias(p, q) == (p + q) \div 2 - RefTechoRaiz(p * q) + 1

\* C8: for odd primes p <= q and n = p*q, ataque_de_fermat(n, K) returns
\* (p, q) when K >= (p+q)/2 - ceil(sqrt(n)) + 1 and None for a smaller K;
\* that count is at most (q-p)/2 + 1.
C8_FermatRecovers ==
    (fa.pc = "done" /\ ProductoDePrimosImpares(fa.n)) =>
        LET p == MenorFactor(fa.n)
            q == fa.n \div p
            need == IteracionesNecesarias(p, q)
        IN  /\ fa.found <=> fa.K >= need
            /\ fa.found => (fa.p = p /\ fa.q = q /\ fa.i + 1 = need)
            /\ need <= (q - p) \div 2 + 1

\* C8 witness: 3 * 17 = 51 factored in the third iteration, at x = 10.
C8_Witness ==
    /\ fa.pc = "done" /\ fa.n = 51 /\ fa.found /\ fa.p = 3 /\ fa.q = 17
    /\ fa.i = 2 /\ fa.x = 10

\* C9: for n >= 1 and K >= 0 ataque_de_fermat does not raise (x*x - n >= 0
\* at every iteration), runs at most K iterations, and returns None or a
\* pair (a, b) with a*b = n and 0 <= a <= b; with K = 0 it returns None.
C9_FermatTotal ==
    fa.n >= 1 =>
        /\ fa.pc # "raised"
        /\ fa.i <= fa.K
        /\ fa.pc = "loop" => fa.x * fa.x - fa.n >= 0
        /\ (fa.pc = "done" /\ fa.found) =>
              /\ fa.i < fa.K
              /\ fa.p * fa.q = fa.n
              /\ 0 <= fa.p /\ fa.p <= fa.q
        /\ (fa.pc = "done" /\ fa.K = 0) => ~fa.found

\* C9 witness: the budget of 5 iterations exhausted on n = 141 = 3 * 47.
C9_Witness ==
    fa.pc = "done" /\ fa.n = 141 /\ fa.K = 5 /\ fa.i = 5 /\ ~fa.found

====
